---- MODULE Spec2Model ----
(***************************************************************************)
(* A model of the Kagi API client of src/src/index.ts: the class Kagi,     *)
(* whose methods build one outbound HTTP request each, and the function    *)
(* request, which runs the request and turns the response into a result or *)
(* a failure.                                                              *)
(*                                                                         *)
(* A JavaScript value is a record [t, s]: its type and its text.  An       *)
(* object is the sequence of its own properties [k, v] in insertion order, *)
(* no key twice.  A URL string is the record of the segments joined by "/" *)
(* and of what follows them: nothing, or "?" and the query pairs.          *)
(***************************************************************************)
EXTENDS Integers, Sequences, FiniteSets, TLC

\* The largest number of properties of the options object of one call.
MaxKeys == 1

\* The largest number of properties of the default-parameter objects of the
\* settings, all endpoints together.
MaxDefaults == 1

----------------------------------------------------------------------------
(* JavaScript values and objects *)

Undefined == [t |-> "undefined", s |-> "undefined"]

Null == [t |-> "null", s |-> "null"]

Str(x) == [t |-> "string", s |-> x]

\* A number, x its decimal text.
Num(x) == [t |-> "number", s |-> x]

\* A nested object, x its JSON text.
Obj(x) == [t |-> "object", s |-> x]

\* String(v): the text of the value, its type lost.
String(v) == v.s

\* v != null, the loose comparison: false of null and of undefined.
NotNullish(v) == v.t \notin {"null", "undefined"}

Prop(k, v) == [k |-> k, v |-> v]

Keys(o) == {o[i].k : i \in DOMAIN o}

Has(o, k) == k \in Keys(o)

\* o[k]: the value of the property, undefined when there is none.
Get(o, k) == IF Has(o, k) THEN o[CHOOSE i \in DOMAIN o : o[i].k = k].v ELSE Undefined

\* {...a, ...b}: the properties of a in their order, each with the value b
\* gives the key when b has it, then the properties only b has.
Spread(a, b) ==
    [i \in DOMAIN a |-> IF Has(b, a[i].k) THEN Prop(a[i].k, Get(b, a[i].k)) ELSE a[i]]
        \o SelectSeq(b, LAMBDA e : ~Has(a, e.k))

\* The mutant of QueryEntries: only undefined values are left out.
QueryEntriesKeepNull(o) ==
    LET kept == SelectSeq(o, LAMBDA e : e.v.t /= "undefined")
    IN  [i \in DOMAIN kept |-> [k |-> kept[i].k, s |-> String(kept[i].v)]]

\* new URLSearchParams(Object.entries(o).filter(v != null).map(String)).
QueryEntries(o) ==
    LET kept == SelectSeq(o, LAMBDA e : NotNullish(e.v))
    IN  [i \in DOMAIN kept |-> [k |-> kept[i].k, s |-> String(kept[i].v)]]

NoBody == [kind |-> "none", members |-> <<>>]

\* JSON.stringify(o): every property but the undefined ones, the values
\* with their types, null included.
JSONstringify(o) ==
    [kind |-> "json", members |-> SelectSeq(o, LAMBDA e : e.v.t /= "undefined")]

----------------------------------------------------------------------------
(* The constants of ./request *)

KAGI_BASE_API_URL == "https://kagi.com/api"

KAGI_API_VERSIONS_v0 == "v0"

KAGI_SUMMARIZER_ENDPOINT == "summarize"

KAGI_SEARCH_ENDPOINT == "search"

KAGI_FASTGPT_ENDPOINT == "fastgpt"

KAGI_ENRICHMENT_ENDPOINT == "enrich"

KAGI_ENRICHMENT_WEB == "web"

KAGI_ENRICHMENT_NEWS == "news"

----------------------------------------------------------------------------
(* URLs and request descriptors *)

\* elems.join("/")
toUrlStr(elems) == [path |-> elems, mark |-> FALSE, search |-> <<>>]

\* url + '?' + queryParams
WithQuery(u, queryParams) == [u EXCEPT !.mark = TRUE, !.search = queryParams]

Authorization(token) == <<"Authorization", "Bot " \o token>>

Accept == <<"Accept", "application/json">>

ContentType == <<"Content-Type", "application/json">>

RequestInit(method, headers, body) ==
    [method |-> method, headers |-> headers, body |-> body]

----------------------------------------------------------------------------
(* The inputs of the model *)

Tokens == {"tok"}

\* The strings new URL(input) accepts, among those the model uses.
AbsoluteUrls == {"https://example.com", "https://other.example"}

\* new URL(input) does not throw.
ParsesAsUrl(input) == input \in AbsoluteUrls

Inputs == {"https://example.com", "hello world"}

Queries == {"kagi"}

\* The method argument of summarize; "undefined" is the argument left out.
Methods == {"undefined", "GET", "POST"}

EnrichTypes == {"web", "news"}

SummarizerKeys == {"url", "text", "engine"}

SearchKeys == {"q", "limit"}

FastGPTKeys == {"query", "cache"}

\* The values a parameter takes in defaults and options.
ValuesOf(k) ==
    CASE k = "url" -> {Str("https://other.example")}
      [] k = "text" -> {Str("other text")}
      [] k \in {"q", "query"} -> {Str("other")}
      [] OTHER -> {Undefined, Null, Num("1"), Str("1")}

RECURSIVE ObjectsOfLen(_, _)
\* The objects of exactly n properties with keys in K.
ObjectsOfLen(K, n) ==
    IF n = 0 THEN {<<>>}
    ELSE UNION {UNION {{Append(o, Prop(k, v)) : v \in ValuesOf(k)} : k \in K \ Keys(o)}
                   : o \in ObjectsOfLen(K, n - 1)}

\* An absent (undefined) defaults or options object spreads as the empty one.
ObjectsUpTo(K, n) == UNION {ObjectsOfLen(K, m) : m \in 0..n}

\* The settings objects passed to the constructor; "undefined" is no version.
SettingsArgs ==
    {s \in [token : Tokens,
            version : {"undefined", KAGI_API_VERSIONS_v0},
            summarizerDefaults : ObjectsUpTo(SummarizerKeys, MaxDefaults),
            searchDefaults : ObjectsUpTo(SearchKeys, MaxDefaults),
            fastGPTDefaults : ObjectsUpTo(FastGPTKeys, MaxDefaults)] :
        Len(s.summarizerDefaults) + Len(s.searchDefaults) + Len(s.fastGPTDefaults)
            <= MaxDefaults}

\* The responses of the transport: a status and the text of the body.
Statuses == {200, 201, 404}

ErrorDescriptor == Obj("{\"code\":1,\"msg\":\"bad\"}")

Bodies ==
    {"<html>", "null", "{\"data\":{}}", "{\"error\":null}",
     "{\"error\":{\"code\":1,\"msg\":\"bad\"}}"}

Responses ==
    {[status |-> 200, body |-> b] : b \in Bodies}
        \cup {[status |-> st, body |-> "<html>"] : st \in Statuses \ {200}}

NoResponse == [status |-> 0, body |-> ""]

\* What res.json() gives when the body is no JSON text.
SyntaxError == [t |-> "SyntaxError", members |-> <<>>]

NoJson == [t |-> "none", members |-> <<>>]

\* res.json(): the parsed body, the JSON null or an object.
JSONparse(body) ==
    CASE body = "null" -> [t |-> "null", members |-> <<>>]
      [] body = "{\"data\":{}}" ->
            [t |-> "object", members |-> <<Prop("data", Obj("{}"))>>]
      [] body = "{\"error\":null}" ->
            [t |-> "object", members |-> <<Prop("error", Null)>>]
      [] body = "{\"error\":{\"code\":1,\"msg\":\"bad\"}}" ->
            [t |-> "object", members |-> <<Prop("error", ErrorDescriptor)>>]
      [] OTHER -> SyntaxError

----------------------------------------------------------------------------
(* The class Kagi: the request each method builds *)

\* constructor: {...{version: v0}, ...settings}
Constructor(s) ==
    [s EXCEPT !.version = IF s.version = "undefined" THEN KAGI_API_VERSIONS_v0
                          ELSE s.version]

\* The mutant of WithDefaults: a default survives the option of its key.
WithDefaultsWinning(defaults, options) == Spread(options, defaults)

\* {...defaults, ...options}
WithDefaults(defaults, options) == Spread(defaults, options)

\* The parameters of summarize: the input goes in last, as url or as text.
summarizeData(st, input, options) ==
    LET data == WithDefaults(st.summarizerDefaults, options)
    IN  IF ParsesAsUrl(input)
        THEN Spread(data, <<Prop("url", Str(input))>>)
        ELSE Spread(data, <<Prop("text", Str(input))>>)

\* The mutant of summarizeRequest: every method but "POST" is sent as a GET.
summarizeRequestGetUnlessPost(st, input, options, method) ==
    LET data == summarizeData(st, input, options)
        url == toUrlStr(<<KAGI_BASE_API_URL, st.version, KAGI_SUMMARIZER_ENDPOINT>>)
    IN  IF method /= "POST"
        THEN [url |-> WithQuery(url, QueryEntries(data)),
              req |-> RequestInit("GET", {Authorization(st.token), Accept}, NoBody),
              data |-> data]
        ELSE [url |-> url,
              req |-> RequestInit("POST",
                                  {Authorization(st.token), Accept, ContentType},
                                  JSONstringify(data)),
              data |-> data]

summarizeRequest(st, input, options, method) ==
    LET data == summarizeData(st, input, options)
        url == toUrlStr(<<KAGI_BASE_API_URL, st.version, KAGI_SUMMARIZER_ENDPOINT>>)
    IN  IF method = "GET"
        THEN [url |-> WithQuery(url, QueryEntries(data)),
              req |-> RequestInit("GET", {Authorization(st.token), Accept}, NoBody),
              data |-> data]
        ELSE [url |-> url,
              req |-> RequestInit("POST",
                                  {Authorization(st.token), Accept, ContentType},
                                  JSONstringify(data)),
              data |-> data]

\* The mutant of searchParams: the query goes in last, as in summarize.
searchParamsQueryLast(st, query, options) ==
    Spread(WithDefaults(st.searchDefaults, options), <<Prop("q", Str(query))>>)

\* {...{q: query}, ...{...searchDefaults, ...options}}
searchParams(st, query, options) ==
    Spread(<<Prop("q", Str(query))>>, WithDefaults(st.searchDefaults, options))

searchRequest(st, query, options) ==
    LET url == toUrlStr(<<KAGI_BASE_API_URL, st.version, KAGI_SEARCH_ENDPOINT>>)
        params == searchParams(st, query, options)
    IN  [url |-> WithQuery(url, QueryEntries(params)),
         req |-> RequestInit("GET", {Authorization(st.token)}, NoBody),
         data |-> params]

fastgptRequest(st, query, options) ==
    LET data == Spread(<<Prop("query", Str(query))>>,
                       WithDefaults(st.fastGPTDefaults, options))
        url == toUrlStr(<<KAGI_BASE_API_URL, st.version, KAGI_FASTGPT_ENDPOINT>>)
    IN  [url |-> url,
         req |-> RequestInit("POST",
                             {Authorization(st.token), Accept, ContentType},
                             JSONstringify(data)),
         data |-> data]

baseEnrich(st, u, q) ==
    LET params == <<Prop("q", Str(q))>>
    IN  [url |-> WithQuery(u, QueryEntries(params)),
         req |-> RequestInit("GET", {Authorization(st.token), Accept}, NoBody),
         data |-> params]

enrichWebRequest(st, query) ==
    baseEnrich(st,
               toUrlStr(<<KAGI_BASE_API_URL, st.version, KAGI_ENRICHMENT_ENDPOINT,
                          KAGI_ENRICHMENT_WEB>>),
               query)

enrichNewsRequest(st, query) ==
    baseEnrich(st,
               toUrlStr(<<KAGI_BASE_API_URL, st.version, KAGI_ENRICHMENT_ENDPOINT,
                          KAGI_ENRICHMENT_NEWS>>),
               query)

\* The mutant of enrichRequest: the two types the wrong way round.
enrichRequestSwapped(st, query, type) ==
    IF type = "web" THEN enrichNewsRequest(st, query) ELSE enrichWebRequest(st, query)

enrichRequest(st, query, type) ==
    IF type = "web" THEN enrichWebRequest(st, query) ELSE enrichNewsRequest(st, query)

----------------------------------------------------------------------------
(* The state *)

VARIABLES
    settings,   \* this.settings of the client
    pc,         \* where the one call in flight is: "idle", "fetch", "status",
                \* "json", "error" or "done"
    call,       \* the public method called and its arguments
    data,       \* the merged parameters of the call, before they are encoded
    url,        \* the url given to request
    req,        \* the RequestInit given to request
    res,        \* the Response of the transport
    kagi,       \* the parsed body
    settled,    \* the outcomes the promise of the call has delivered
    fetches,    \* the calls of fetch made for the call
    parses      \* the calls of res.json() made for the call

vars == <<settings, pc, call, data, url, req, res, kagi, settled, fetches, parses>>

NoCall == [name |-> "none", input |-> "", options |-> <<>>, method |-> "undefined",
           type |-> ""]

NoUrl == toUrlStr(<<>>)

NoRequest == RequestInit("", {}, NoBody)

NoReason == [name |-> "none"]

\* new KagiError(url, req, res, error): the error keeps its four arguments;
\* error is undefined when the fourth is left out.
KagiError(u, r, response, error) ==
    [name |-> "KagiError", url |-> u, req |-> r, res |-> response, error |-> error]

Rejected(reason) == [state |-> "rejected", reason |-> reason, value |-> NoJson]

Resolved(value) == [state |-> "resolved", reason |-> NoReason, value |-> value]

Init ==
    /\ settings \in {Constructor(s) : s \in SettingsArgs}
    /\ pc = "idle"
    /\ call = NoCall
    /\ data = <<>>
    /\ url = NoUrl
    /\ req = NoRequest
    /\ res = NoResponse
    /\ kagi = NoJson
    /\ settled = <<>>
    /\ fetches = 0
    /\ parses = 0

----------------------------------------------------------------------------
(* The methods of Kagi: each builds its request and hands it to request *)

\* request(url, req), up to fetch(url, req): the transport is called once.
request(built) ==
    /\ url' = built.url
    /\ req' = built.req
    /\ data' = built.data
    /\ fetches' = fetches + 1
    /\ pc' = "fetch"
    /\ UNCHANGED <<settings, res, kagi, settled, parses>>

summarize(input, options, method) ==
    /\ pc = "idle"
    /\ call' = [name |-> "summarize", input |-> input, options |-> options,
                method |-> method, type |-> ""]
    /\ request(summarizeRequest(settings, input, options, method))

search(query, options) ==
    /\ pc = "idle"
    /\ call' = [name |-> "search", input |-> query, options |-> options,
                method |-> "undefined", type |-> ""]
    /\ request(searchRequest(settings, query, options))

fastgpt(query, options) ==
    /\ pc = "idle"
    /\ call' = [name |-> "fastgpt", input |-> query, options |-> options,
                method |-> "undefined", type |-> ""]
    /\ request(fastgptRequest(settings, query, options))

enrich(query, type) ==
    /\ pc = "idle"
    /\ call' = [name |-> "enrich", input |-> query, options |-> <<>>,
                method |-> "undefined", type |-> type]
    /\ request(enrichRequest(settings, query, type))

enrichWeb(query) ==
    /\ pc = "idle"
    /\ call' = [name |-> "enrichWeb", input |-> query, options |-> <<>>,
                method |-> "undefined", type |-> ""]
    /\ request(enrichWebRequest(settings, query))

enrichNews(query) ==
    /\ pc = "idle"
    /\ call' = [name |-> "enrichNews", input |-> query, options |-> <<>>,
                method |-> "undefined", type |-> ""]
    /\ request(enrichNewsRequest(settings, query))

----------------------------------------------------------------------------
(* The function request: the promise chain on fetch *)

\* The transport answers: the promise of fetch is fulfilled with a Response.
fetchFulfils(response) ==
    /\ pc = "fetch"
    /\ res' = response
    /\ pc' = "status"
    /\ UNCHANGED <<settings, call, data, url, req, kagi, settled, fetches, parses>>

\* The transport fails: the promise of fetch is rejected and no then-callback
\* of the chain runs.
fetchRejects ==
    /\ pc = "fetch"
    /\ settled' = Append(settled, Rejected([name |-> "TypeError"]))
    /\ pc' = "done"
    /\ UNCHANGED <<settings, call, data, url, req, res, kagi, fetches, parses>>

\* The mutant of statusCheck: every status below 300 passes.
statusCheckAnySuccess ==
    /\ pc = "status"
    /\ IF res.status >= 300
       THEN /\ settled' = Append(settled, Rejected(KagiError(url, req, res, Undefined)))
            /\ pc' = "done"
       ELSE /\ pc' = "json"
            /\ UNCHANGED settled
    /\ UNCHANGED <<settings, call, data, url, req, res, kagi, fetches, parses>>

\* The mutant of statusCheck: a status other than 200 is tried a second time.
statusCheckRetry ==
    /\ pc = "status"
    /\ IF res.status /= 200
       THEN IF fetches < 2
            THEN /\ fetches' = fetches + 1
                 /\ pc' = "fetch"
                 /\ UNCHANGED settled
            ELSE /\ settled' = Append(settled,
                                      Rejected(KagiError(url, req, res, Undefined)))
                 /\ pc' = "done"
                 /\ UNCHANGED fetches
       ELSE /\ pc' = "json"
            /\ UNCHANGED <<settled, fetches>>
    /\ UNCHANGED <<settings, call, data, url, req, res, kagi, parses>>

\* The first then-callback: a status other than 200 throws a KagiError
\* without an error descriptor.
statusCheck ==
    /\ pc = "status"
    /\ IF res.status /= 200
       THEN /\ settled' = Append(settled, Rejected(KagiError(url, req, res, Undefined)))
            /\ pc' = "done"
       ELSE /\ pc' = "json"
            /\ UNCHANGED settled
    /\ UNCHANGED <<settings, call, data, url, req, res, kagi, fetches, parses>>

\* The mutant of parseBody: a body that is no JSON is thrown as a KagiError.
parseBodyWrapped ==
    /\ pc = "json"
    /\ parses' = parses + 1
    /\ LET json == JSONparse(res.body)
       IN  IF json = SyntaxError
           THEN /\ settled' = Append(settled,
                                     Rejected(KagiError(url, req, res, Undefined)))
                /\ pc' = "done"
                /\ UNCHANGED kagi
           ELSE /\ kagi' = json
                /\ pc' = "error"
                /\ UNCHANGED settled
    /\ UNCHANGED <<settings, call, data, url, req, res, fetches>>

\* The second then-callback: res.json(), whose rejection goes down the chain.
parseBody ==
    /\ pc = "json"
    /\ parses' = parses + 1
    /\ LET json == JSONparse(res.body)
       IN  IF json = SyntaxError
           THEN /\ settled' = Append(settled, Rejected([name |-> "SyntaxError"]))
                /\ pc' = "done"
                /\ UNCHANGED kagi
           ELSE /\ kagi' = json
                /\ pc' = "error"
                /\ UNCHANGED settled
    /\ UNCHANGED <<settings, call, data, url, req, res, fetches>>

\* The third then-callback: res.kagi.error !== undefined throws a KagiError
\* with the descriptor, and reading .error of null throws a TypeError.
errorCheck ==
    /\ pc = "error"
    /\ settled' =
          Append(settled,
                 IF kagi.t = "null" THEN Rejected([name |-> "TypeError"])
                 ELSE IF Get(kagi.members, "error") /= Undefined
                 THEN Rejected(KagiError(url, req, res, Get(kagi.members, "error")))
                 ELSE Resolved(kagi))
    /\ pc' = "done"
    /\ UNCHANGED <<settings, call, data, url, req, res, kagi, fetches, parses>>

\* The caller has its outcome; nothing of the call is kept but the settings.
return ==
    /\ pc = "done"
    /\ pc' = "idle"
    /\ call' = NoCall
    /\ data' = <<>>
    /\ url' = NoUrl
    /\ req' = NoRequest
    /\ res' = NoResponse
    /\ kagi' = NoJson
    /\ settled' = <<>>
    /\ fetches' = 0
    /\ parses' = 0
    /\ UNCHANGED settings

Next ==
    \/ \E input \in Inputs, options \in ObjectsUpTo(SummarizerKeys, MaxKeys),
          method \in Methods : summarize(input, options, method)
    \/ \E query \in Queries, options \in ObjectsUpTo(SearchKeys, MaxKeys) :
          search(query, options)
    \/ \E query \in Queries, options \in ObjectsUpTo(FastGPTKeys, MaxKeys) :
          fastgpt(query, options)
    \/ \E query \in Queries, type \in EnrichTypes : enrich(query, type)
    \/ \E query \in Queries : enrichWeb(query)
    \/ \E query \in Queries : enrichNews(query)
    \/ \E response \in Responses : fetchFulfils(response)
    \/ fetchRejects
    \/ statusCheck
    \/ parseBody
    \/ errorCheck
    \/ return

Spec == Init /\ [][Next]_vars

----------------------------------------------------------------------------
(* What the properties speak of *)

\* The methods that merge defaults and options.
Merging == {"summarize", "search", "fastgpt"}

\* The defaults of the settings the method of the call reads.
DefaultsOfCall ==
    CASE call.name = "summarize" -> settings.summarizerDefaults
      [] call.name = "search" -> settings.searchDefaults
      [] call.name = "fastgpt" -> settings.fastGPTDefaults
      [] OTHER -> <<>>

\* The field the positional argument of the call sets.
RequiredKey ==
    CASE call.name = "summarize" -> IF ParsesAsUrl(call.input) THEN "url" ELSE "text"
      [] call.name = "fastgpt" -> "query"
      [] OTHER -> "q"

RequiredOfCall == <<Prop(RequiredKey, Str(call.input))>>

\* The keys of the parameters the outbound request carries, in its query
\* string when it is a GET and in its JSON body otherwise.
OutboundKeys ==
    IF req.method = "GET" THEN {url.search[i].k : i \in DOMAIN url.search}
    ELSE {req.body.members[i].k : i \in DOMAIN req.body.members}

\* The outbound request carries the value v for the key k: a query string
\* has the pair of k and the text of v, a JSON body the member k with v; an
\* undefined v, and in a query string a null one, is carried as no k at all.
Carries(k, v) ==
    IF req.method = "GET"
    THEN IF NotNullish(v)
         THEN \E i \in DOMAIN url.search : url.search[i] = [k |-> k, s |-> String(v)]
         ELSE k \notin OutboundKeys
    ELSE IF v = Undefined
         THEN k \notin OutboundKeys
         ELSE \E i \in DOMAIN req.body.members : req.body.members[i] = Prop(k, v)

\* The value of k in the last of the objects that has it.
RECURSIVE LastOf(_, _)
LastOf(objects, k) ==
    IF objects = <<>> THEN Undefined
    ELSE IF Has(objects[Len(objects)], k) THEN Get(objects[Len(objects)], k)
    ELSE LastOf(SubSeq(objects, 1, Len(objects) - 1), k)

\* data is the key-by-key merge of the objects, later ones overwriting.
IsMergeOf(objects) ==
    /\ Keys(data) = UNION {Keys(objects[i]) : i \in DOMAIN objects}
    /\ Len(data) = Cardinality(Keys(data))
    /\ \A k \in Keys(data) : Get(data, k) = LastOf(objects, k)

\* The transport has answered the call in flight.
Answered == pc \in {"status", "json", "error", "done"} /\ res /= NoResponse

----------------------------------------------------------------------------
(* C1 *)

\* C1, as claimed: in a call of summarize, search or fastgpt, for every key
\* that the endpoint's defaults and the options of the call both define, the
\* outbound request carries the value of the options.
C1_OptionAlwaysWins ==
    call.name \in Merging =>
        \A k \in Keys(DefaultsOfCall) \cap Keys(call.options) :
            Carries(k, Get(call.options, k))

\* C1, amended: in a call of summarize, search or fastgpt, for every key
\* that the endpoint's defaults and the options of the call both define, the
\* outbound request carries the value of the options, but for the key url
\* (the input a URL) or text (the input no URL) of summarize, which carries
\* the input.
C1_OptionWinsButInput ==
    call.name \in Merging =>
        \A k \in Keys(DefaultsOfCall) \cap Keys(call.options) :
            IF call.name = "summarize" /\ k = RequiredKey
            THEN Carries(k, Str(call.input))
            ELSE Carries(k, Get(call.options, k))

\* A call whose defaults and options give one key two values, the request
\* carrying that of the options and not that of the defaults.
C1_Witness ==
    /\ call.name \in Merging
    /\ \E k \in Keys(DefaultsOfCall) \cap Keys(call.options) :
          /\ Get(DefaultsOfCall, k) /= Get(call.options, k)
          /\ Carries(k, Get(call.options, k))
          /\ ~Carries(k, Get(DefaultsOfCall, k))

----------------------------------------------------------------------------
(* C2 *)

\* C2, as claimed: the parameters of summarize, search and fastgpt are the
\* merge of the required field, then the defaults, then the options, each
\* later one overwriting.
C2_RequiredFirst ==
    call.name \in Merging =>
        IsMergeOf(<<RequiredOfCall, DefaultsOfCall, call.options>>)

\* C2, amended: the parameters of search and fastgpt are the merge of the
\* required field (q, query), then the defaults, then the options, each later
\* one overwriting, so that a q or query of the defaults or options replaces
\* the positional argument; those of summarize are the merge of the defaults,
\* then the options, then the field of the input (url or text), which
\* nothing replaces.
C2_RequiredFirstButSummarize ==
    call.name \in Merging =>
        IF call.name = "summarize"
        THEN IsMergeOf(<<DefaultsOfCall, call.options, RequiredOfCall>>)
        ELSE IsMergeOf(<<RequiredOfCall, DefaultsOfCall, call.options>>)

\* A search whose options have a q: the request carries it and not the
\* query of the call.
C2_Witness ==
    /\ call.name = "search"
    /\ Has(call.options, "q")
    /\ Get(call.options, "q") /= Str(call.input)
    /\ Carries("q", Get(call.options, "q"))

----------------------------------------------------------------------------
(* C3 *)

\* C3, as claimed: the request of summarize carries the input as url and has
\* no text when the input parses as a URL, and carries the input as text and
\* has no url when it does not.
C3_UrlOrTextNeverBoth ==
    call.name = "summarize" =>
        IF ParsesAsUrl(call.input)
        THEN Carries("url", Str(call.input)) /\ "text" \notin OutboundKeys
        ELSE Carries("text", Str(call.input)) /\ "url" \notin OutboundKeys

----------------------------------------------------------------------------
(* C4 *)

\* C4: once the transport has answered with a status other than 200, the
\* body is never parsed, and the call ends rejected with a KagiError of the
\* url, the request descriptor and the response, with no error descriptor.
C4_TransportError ==
    (Answered /\ res.status /= 200) =>
        /\ parses = 0
        /\ pc \in {"status", "done"}
        /\ pc = "done" =>
              /\ Len(settled) = 1
              /\ settled[1].state = "rejected"
              /\ settled[1].reason.name = "KagiError"
              /\ settled[1].reason.url = url
              /\ settled[1].reason.req = req
              /\ settled[1].reason.res = res
              /\ settled[1].reason.error = Undefined

\* A call the transport answered with 201, rejected with a KagiError.
C4_Witness ==
    /\ pc = "done"
    /\ res.status = 201
    /\ Len(settled) = 1
    /\ settled[1].reason.name = "KagiError"
    /\ settled[1].reason.res.status = 201

----------------------------------------------------------------------------
(* C5 *)

\* C5, as claimed: a call the transport answered with 200 and a body that
\* parses ends rejected with a KagiError of the url, the request descriptor,
\* the response and the error of the body when the body has one, and
\* resolved with the parsed body when it has none.
C5_ErrorOrBody ==
    (pc = "done" /\ Answered /\ res.status = 200
        /\ JSONparse(res.body) /= SyntaxError) =>
        LET json == JSONparse(res.body)
        IN  IF Has(json.members, "error")
            THEN settled =
                    <<Rejected(KagiError(url, req, res, Get(json.members, "error")))>>
            ELSE settled = <<Resolved(json)>>

----------------------------------------------------------------------------
(* C6 *)

\* C6: a call makes one request of the transport, has no outcome before its
\* chain ends and exactly one, resolved or rejected, after; and a call the
\* transport has answered is never stuck before its end.
C6_OneFetchOneOutcome ==
    /\ pc = "idle" => fetches = 0 /\ settled = <<>>
    /\ pc \in {"fetch", "status", "json", "error"} => fetches = 1 /\ settled = <<>>
    /\ pc = "done" =>
          /\ fetches = 1
          /\ Len(settled) = 1
          /\ \/ settled[1].state = "resolved" /\ settled[1].reason = NoReason
             \/ settled[1].state = "rejected" /\ settled[1].reason /= NoReason
                    /\ settled[1].value = NoJson
    /\ pc \in {"status", "json", "error"} =>
          ENABLED (statusCheck \/ parseBody \/ errorCheck)

\* A call that ended rejected on a status of 404, after one request.
C6_Witness ==
    /\ pc = "done"
    /\ res.status = 404
    /\ fetches = 1
    /\ Len(settled) = 1
    /\ settled[1].state = "rejected"

----------------------------------------------------------------------------
(* C7 *)

\* C7: summarize with the method "GET" sends a GET without a body, its
\* parameters in the query string; with any other method or none it sends a
\* POST whose body is the JSON of its parameters and whose url has no query
\* string.
C7_GetOrPost ==
    call.name = "summarize" =>
        /\ OutboundKeys \subseteq Keys(data)
        /\ \A i \in DOMAIN data : Carries(data[i].k, data[i].v)
        /\ IF call.method = "GET"
           THEN /\ req.method = "GET"
                /\ req.body = NoBody
                /\ url.mark
           ELSE /\ req.method = "POST"
                /\ req.body.kind = "json"
                /\ ~url.mark
                /\ url.search = <<>>

\* A summarize without a method: a POST with the input in its JSON body.
C7_Witness ==
    /\ call.name = "summarize"
    /\ call.method = "undefined"
    /\ req.method = "POST"
    /\ req.body.kind = "json"
    /\ Len(req.body.members) >= 2

----------------------------------------------------------------------------
(* C8 *)

\* C8: in every GET request, no parameter whose merged value is null or
\* undefined is in the query string, and every other parameter is, with the
\* text of its value.
C8_NoNullishInQuery ==
    (pc /= "idle" /\ req.method = "GET") =>
        /\ {url.search[i].k : i \in DOMAIN url.search} \subseteq Keys(data)
        /\ \A i \in DOMAIN data :
              IF data[i].v \in {Null, Undefined}
              THEN \A j \in DOMAIN url.search : url.search[j].k /= data[i].k
              ELSE \E j \in DOMAIN url.search :
                      url.search[j] = [k |-> data[i].k, s |-> String(data[i].v)]

\* A GET with a null parameter, left out of a query string that has
\* another.
C8_Witness ==
    /\ pc /= "idle"
    /\ req.method = "GET"
    /\ \E i \in DOMAIN data : data[i].v = Null /\ data[i].k \notin OutboundKeys
    /\ url.search /= <<>>

----------------------------------------------------------------------------
(* C9 *)

\* C9: the request of enrich(query, "web") is that of enrichWeb(query) and
\* goes to {version}/enrich/web; the request of enrich(query, "news") is that
\* of enrichNews(query) and goes to {version}/enrich/news.
C9_EnrichIsWebOrNews ==
    call.name = "enrich" =>
        /\ call.type = "web" =>
              /\ url = enrichWebRequest(settings, call.input).url
              /\ req = enrichWebRequest(settings, call.input).req
              /\ url.path = <<KAGI_BASE_API_URL, settings.version, "enrich", "web">>
        /\ call.type = "news" =>
              /\ url = enrichNewsRequest(settings, call.input).url
              /\ req = enrichNewsRequest(settings, call.input).req
              /\ url.path = <<KAGI_BASE_API_URL, settings.version, "enrich", "news">>

\* An enrich of type "news" in flight.
C9_Witness ==
    /\ call.name = "enrich"
    /\ call.type = "news"
    /\ pc = "fetch"
    /\ url.path[Len(url.path)] = "news"

----------------------------------------------------------------------------
(* C10 *)

\* C10: a call the transport answered with 200 and a body that is no JSON
\* ends rejected, with a failure that is no KagiError, and is never resolved.
C10_ParseFailure ==
    (pc = "done" /\ Answered /\ res.status = 200
        /\ JSONparse(res.body) = SyntaxError) =>
        /\ Len(settled) = 1
        /\ settled[1].state = "rejected"
        /\ settled[1].reason.name = "SyntaxError"
        /\ settled[1].reason.name /= "KagiError"
        /\ settled[1].value = NoJson

\* A call that ended on a 200 whose body is no JSON.
C10_Witness ==
    /\ pc = "done"
    /\ res = [status |-> 200, body |-> "<html>"]
    /\ parses = 1
    /\ Len(settled) = 1
    /\ settled[1].state = "rejected"

====
